---- MODULE Spec2Model ----
(***************************************************************************)
(* Model of app/src/main.py: the SampleApp vehicle app.  It registers five *)
(* data-broker change callbacks in on_start, and five MQTT request         *)
(* handlers through the subscribe_topic decorator.  Every callback and     *)
(* handler ends in one publish_event of a json.dumps text.                 *)
(***************************************************************************)
EXTENDS Integers, Sequences, FiniteSets, TLC

(***************************************************************************)
(* Topic constants, main.py lines 36-50.                                   *)
(***************************************************************************)
GET_SPEED_REQUEST_TOPIC == "sampleapp/getSpeed"
GET_SPEED_RESPONSE_TOPIC == "sampleapp/getSpeed/response"
GET_STEER_REQUEST_TOPIC == "sampleapp/getSteer"
GET_STEER_RESPONSE_TOPIC == "sampleapp/getSteer/response"
GET_THROT_REQUEST_TOPIC == "sampleapp/getThrottle"
GET_THROT_RESPONSE_TOPIC == "sampleapp/getThrottle/response"
GET_BRAKE_REQUEST_TOPIC == "sampleapp/getBrake"
GET_BRAKE_RESPONSE_TOPIC == "sampleapp/getBrake/response"
GET_LANE_REQUEST_TOPIC == "sampleapp/getLane"
GET_LANE_RESPONSE_TOPIC == "sampleapp/getLane/response"
DATABROKER_SPEED_SUBSCRIPTION_TOPIC == "sampleapp/currentSpeed"
DATABROKER_STEER_SUBSCRIPTION_TOPIC == "sampleapp/currentSteer"
DATABROKER_TRHOT_SUBSCRIPTION_TOPIC == "sampleapp/currentThrottle"
DATABROKER_BRAKE_SUBSCRIPTION_TOPIC == "sampleapp/currentBrake"
DATABROKER_LANE_SUBSCRIPTION_TOPIC == "sampleapp/currentLane"

(***************************************************************************)
(* The signal paths the code names through self.Vehicle.<...>.             *)
(***************************************************************************)
Vehicle_Speed == "Vehicle.Speed"
Vehicle_Chassis_SteeringWheel_Angle == "Vehicle.Chassis.SteeringWheel.Angle"
Vehicle_OBD_ThrottlePosition == "Vehicle.OBD.ThrottlePosition"
Vehicle_Chassis_Brake_PedalPosition == "Vehicle.Chassis.Brake.PedalPosition"
Vehicle_ADAS_LaneDepartureDetection_IsWarning ==
    "Vehicle.ADAS.LaneDepartureDetection.IsWarning"

SignalPaths ==
    { Vehicle_Speed, Vehicle_Chassis_SteeringWheel_Angle,
      Vehicle_OBD_ThrottlePosition, Vehicle_Chassis_Brake_PedalPosition,
      Vehicle_ADAS_LaneDepartureDetection_IsWarning }

(***************************************************************************)
(* Python values a datapoint can carry.  A float is kept in tenths.        *)
(***************************************************************************)
PyNone == [t |-> "None"]
PyInt(n) == [t |-> "int", n |-> n]
PyFloat(m) == [t |-> "float", m |-> m]
PyBool(b) == [t |-> "bool", b |-> b]
PyStr(s) == [t |-> "str", s |-> s]
PyDict(items) == [t |-> "dict", items |-> items]

\* The values the broker holds for a datapoint: unset (None), or a value of
\* the datapoint's type.
ValuesOf(path) ==
    CASE path = "Vehicle.Speed" -> { PyNone, PyFloat(425) }
      [] path = "Vehicle.Chassis.SteeringWheel.Angle" -> { PyNone, PyInt(-3) }
      [] path = "Vehicle.OBD.ThrottlePosition" -> { PyNone, PyFloat(105) }
      [] path = "Vehicle.Chassis.Brake.PedalPosition" -> { PyNone, PyInt(10) }
      [] path = "Vehicle.ADAS.LaneDepartureDetection.IsWarning" ->
             { PyNone, PyBool(TRUE) }

Digit(d) ==
    CASE d = 0 -> "0" [] d = 1 -> "1" [] d = 2 -> "2" [] d = 3 -> "3"
      [] d = 4 -> "4" [] d = 5 -> "5" [] d = 6 -> "6" [] d = 7 -> "7"
      [] d = 8 -> "8" [] d = 9 -> "9"

RECURSIVE NatToStr(_)
NatToStr(n) == IF n < 10 THEN Digit(n) ELSE NatToStr(n \div 10) \o Digit(n % 10)

IntToStr(n) == IF n < 0 THEN "-" \o NatToStr(0 - n) ELSE NatToStr(n)

\* float.__repr__ for a value with one decimal digit, kept in tenths.
FloatToStr(m) ==
    IF m < 0 THEN "-" \o NatToStr((0 - m) \div 10) \o "." \o Digit((0 - m) % 10)
    ELSE NatToStr(m \div 10) \o "." \o Digit(m % 10)

(***************************************************************************)
(* json.dumps with its default separators ", " and ": ".  The strings the  *)
(* app serialises hold no character that JSON escapes.                     *)
(***************************************************************************)
RECURSIVE json_dumps(_)
RECURSIVE json_items(_)
json_items(items) ==
    IF items = << >> THEN ""
    ELSE "\"" \o items[1][1] \o "\": " \o json_dumps(items[1][2])
         \o (IF Len(items) > 1 THEN ", " ELSE "")
         \o json_items(Tail(items))

\* A serialiser that writes None the way str() does.
json_dumps_str_none(v) ==
    CASE v.t = "None" -> "None"
      [] v.t = "bool" -> (IF v.b THEN "true" ELSE "false")
      [] v.t = "int" -> IntToStr(v.n)
      [] v.t = "float" -> FloatToStr(v.m)
      [] v.t = "str" -> "\"" \o v.s \o "\""
      [] v.t = "dict" -> "{" \o json_items(v.items) \o "}"

json_dumps(v) ==
    CASE v.t = "None" -> "null"
      [] v.t = "bool" -> (IF v.b THEN "true" ELSE "false")
      [] v.t = "int" -> IntToStr(v.n)
      [] v.t = "float" -> FloatToStr(v.m)
      [] v.t = "str" -> "\"" \o v.s \o "\""
      [] v.t = "dict" -> "{" \o json_items(v.items) \o "}"

(***************************************************************************)
(* The f-string replacement field {x}: format(x, "") is str(x).            *)
(***************************************************************************)
\* A formatter that writes the value as JSON does instead of as str() does.
format_value_as_json(v) ==
    CASE v.t = "None" -> "null"
      [] v.t = "bool" -> (IF v.b THEN "true" ELSE "false")
      [] v.t = "int" -> IntToStr(v.n)
      [] v.t = "float" -> FloatToStr(v.m)
      [] v.t = "str" -> v.s

format_value(v) ==
    CASE v.t = "None" -> "None"
      [] v.t = "bool" -> (IF v.b THEN "True" ELSE "False")
      [] v.t = "int" -> IntToStr(v.n)
      [] v.t = "float" -> FloatToStr(v.m)
      [] v.t = "str" -> v.s

(***************************************************************************)
(* What one run of a callback asks of publish_event, or the exception it   *)
(* raised before reaching it.                                              *)
(***************************************************************************)
Raised == [raised |-> TRUE, topic |-> "", payload |-> ""]
publish_event(topic, payload) ==
    [raised |-> FALSE, topic |-> topic, payload |-> payload]

\* The replies a subscription for one datapoint delivers: path -> value.
DataPointReply(path, v) == [p \in {path} |-> v]
NoReply == [p \in {} |-> PyNone]

(***************************************************************************)
(* The five change callbacks, main.py lines 86-131: data.get(<path>).value *)
(* and publish_event(<topic>, json.dumps({<field>: value})).               *)
(***************************************************************************)
on_speed_change(data) ==
    IF Vehicle_Speed \notin DOMAIN data THEN Raised
    ELSE publish_event(DATABROKER_SPEED_SUBSCRIPTION_TOPIC,
             json_dumps(PyDict(<< <<"speed", data[Vehicle_Speed]>> >>)))

\* on_steer_change pasted from on_speed_change with the topic left unchanged.
on_steer_change_speed_topic(data) ==
    IF Vehicle_Chassis_SteeringWheel_Angle \notin DOMAIN data THEN Raised
    ELSE publish_event(DATABROKER_SPEED_SUBSCRIPTION_TOPIC,
             json_dumps(PyDict(<< <<"steeringAngle",
                                    data[Vehicle_Chassis_SteeringWheel_Angle]>> >>)))

on_steer_change(data) ==
    IF Vehicle_Chassis_SteeringWheel_Angle \notin DOMAIN data THEN Raised
    ELSE publish_event(DATABROKER_STEER_SUBSCRIPTION_TOPIC,
             json_dumps(PyDict(<< <<"steeringAngle",
                                    data[Vehicle_Chassis_SteeringWheel_Angle]>> >>)))

on_throttle_change(data) ==
    IF Vehicle_OBD_ThrottlePosition \notin DOMAIN data THEN Raised
    ELSE publish_event(DATABROKER_TRHOT_SUBSCRIPTION_TOPIC,
             json_dumps(PyDict(<< <<"throttlePosition",
                                    data[Vehicle_OBD_ThrottlePosition]>> >>)))

on_brake_change(data) ==
    IF Vehicle_Chassis_Brake_PedalPosition \notin DOMAIN data THEN Raised
    ELSE publish_event(DATABROKER_BRAKE_SUBSCRIPTION_TOPIC,
             json_dumps(PyDict(<< <<"brakePosition",
                                    data[Vehicle_Chassis_Brake_PedalPosition]>> >>)))

on_lane_change(data) ==
    IF Vehicle_ADAS_LaneDepartureDetection_IsWarning \notin DOMAIN data THEN Raised
    ELSE publish_event(DATABROKER_LANE_SUBSCRIPTION_TOPIC,
             json_dumps(PyDict(<< <<"laneWarning",
                                    data[Vehicle_ADAS_LaneDepartureDetection_IsWarning]>> >>)))

ChangeCallbacks ==
    { "on_speed_change", "on_steer_change", "on_throttle_change",
      "on_brake_change", "on_lane_change" }

\* Calling the bound method registered under the name cb.
CallChangeCallback(cb, data) ==
    CASE cb = "on_speed_change" -> on_speed_change(data)
      [] cb = "on_steer_change" -> on_steer_change(data)
      [] cb = "on_throttle_change" -> on_throttle_change(data)
      [] cb = "on_brake_change" -> on_brake_change(data)
      [] cb = "on_lane_change" -> on_lane_change(data)

(***************************************************************************)
(* The result document of a query handler and its serialisation.           *)
(***************************************************************************)
result_payload(message) ==
    json_dumps(PyDict(<< <<"result",
        PyDict(<< <<"status", PyInt(0)>>, <<"message", PyStr(message)>> >>)>> >>))

(***************************************************************************)
(* The five request handlers, main.py lines 133-221.  Each has the debug   *)
(* line it logs, the datapoint whose get() it awaits, and the publish it   *)
(* makes with the value read.  The brake handler's f-string is             *)
(* """Brake\<newline><16 blanks>Position = {brake}""": the backslash       *)
(* removes the newline only, the continuation line's indentation stays.    *)
(***************************************************************************)
on_get_speed_request_received_log(data) ==
    "PubSub event for the Topic: " \o GET_SPEED_REQUEST_TOPIC
        \o " -> is received with the data: " \o data
on_get_speed_request_received_get == Vehicle_Speed
on_get_speed_request_received(data, vehicle_speed) ==
    publish_event(GET_SPEED_RESPONSE_TOPIC,
        result_payload("Current Speed = " \o format_value(vehicle_speed)))

on_get_steer_request_received_log(data) == "Received steer request: " \o data
on_get_steer_request_received_get == Vehicle_Chassis_SteeringWheel_Angle
on_get_steer_request_received(data, steer) ==
    publish_event(GET_STEER_RESPONSE_TOPIC,
        result_payload("Steer Angle = " \o format_value(steer)))

on_get_throttle_request_received_log(data) == "Received throttle request: " \o data
on_get_throttle_request_received_get == Vehicle_OBD_ThrottlePosition
\* A throttle handler that puts the request's payload into its answer.
on_get_throttle_request_received_echo(data, throttle) ==
    publish_event(GET_THROT_RESPONSE_TOPIC,
        result_payload("Throttle = " \o format_value(throttle) \o data))

on_get_throttle_request_received(data, throttle) ==
    publish_event(GET_THROT_RESPONSE_TOPIC,
        result_payload("Throttle = " \o format_value(throttle)))

on_get_brake_request_received_log(data) == "Received brake request: " \o data
on_get_brake_request_received_get == Vehicle_Chassis_Brake_PedalPosition
on_get_brake_request_received(data, brake) ==
    publish_event(GET_BRAKE_RESPONSE_TOPIC,
        result_payload("Brake" \o "                Position = "
                       \o format_value(brake)))

on_get_lane_request_received_log(data) == "Received lane request: " \o data
on_get_lane_request_received_get == Vehicle_ADAS_LaneDepartureDetection_IsWarning
\* A lane handler that answers on the topic it listens to.
on_get_lane_request_received_on_request_topic(data, lane) ==
    publish_event(GET_LANE_REQUEST_TOPIC,
        result_payload("Lane Warning = " \o format_value(lane)))

on_get_lane_request_received(data, lane) ==
    publish_event(GET_LANE_RESPONSE_TOPIC,
        result_payload("Lane Warning = " \o format_value(lane)))

\* The subscribe_topic decorators: request topic -> handler.
subscribe_topic ==
    { <<GET_SPEED_REQUEST_TOPIC, "on_get_speed_request_received">>,
      <<GET_STEER_REQUEST_TOPIC, "on_get_steer_request_received">>,
      <<GET_THROT_REQUEST_TOPIC, "on_get_throttle_request_received">>,
      <<GET_BRAKE_REQUEST_TOPIC, "on_get_brake_request_received">>,
      <<GET_LANE_REQUEST_TOPIC, "on_get_lane_request_received">> }

RequestHandlers == { s[2] : s \in subscribe_topic }

HandlerLog(h, data) ==
    CASE h = "on_get_speed_request_received" -> on_get_speed_request_received_log(data)
      [] h = "on_get_steer_request_received" -> on_get_steer_request_received_log(data)
      [] h = "on_get_throttle_request_received" -> on_get_throttle_request_received_log(data)
      [] h = "on_get_brake_request_received" -> on_get_brake_request_received_log(data)
      [] h = "on_get_lane_request_received" -> on_get_lane_request_received_log(data)

HandlerGet(h) ==
    CASE h = "on_get_speed_request_received" -> on_get_speed_request_received_get
      [] h = "on_get_steer_request_received" -> on_get_steer_request_received_get
      [] h = "on_get_throttle_request_received" -> on_get_throttle_request_received_get
      [] h = "on_get_brake_request_received" -> on_get_brake_request_received_get
      [] h = "on_get_lane_request_received" -> on_get_lane_request_received_get

CallRequestHandler(h, data, value) ==
    CASE h = "on_get_speed_request_received" -> on_get_speed_request_received(data, value)
      [] h = "on_get_steer_request_received" -> on_get_steer_request_received(data, value)
      [] h = "on_get_throttle_request_received" -> on_get_throttle_request_received(data, value)
      [] h = "on_get_brake_request_received" -> on_get_brake_request_received(data, value)
      [] h = "on_get_lane_request_received" -> on_get_lane_request_received(data, value)

(***************************************************************************)
(* on_start, main.py lines 73-84: the five subscribe calls in order, each  *)
(* a (signal path, callback) registration.                                 *)
(***************************************************************************)
\* An on_start whose second subscribe was pasted from the first with only the
\* datapoint changed: the steering angle is bound to on_speed_change.
on_start_pasted_callback ==
    << <<Vehicle_Speed, "on_speed_change">>,
       <<Vehicle_Chassis_SteeringWheel_Angle, "on_speed_change">>,
       <<Vehicle_OBD_ThrottlePosition, "on_throttle_change">>,
       <<Vehicle_Chassis_Brake_PedalPosition, "on_brake_change">>,
       <<Vehicle_ADAS_LaneDepartureDetection_IsWarning, "on_lane_change">> >>

on_start ==
    << <<Vehicle_Speed, "on_speed_change">>,
       <<Vehicle_Chassis_SteeringWheel_Angle, "on_steer_change">>,
       <<Vehicle_OBD_ThrottlePosition, "on_throttle_change">>,
       <<Vehicle_Chassis_Brake_PedalPosition, "on_brake_change">>,
       <<Vehicle_ADAS_LaneDepartureDetection_IsWarning, "on_lane_change">> >>

(***************************************************************************)
(* Bounds of the model.                                                    *)
(***************************************************************************)
\* The number of inputs one run takes: broker updates plus requests.
MaxEvents == 2
\* How many of them it may take while on_start is still subscribing.
MaxEarly == 1

\* The payload the requests of a run carry: a malformed one.  The shadow run
\* is the run in which every request carries the empty payload instead.
Payloads == { "{oops" }
EmptyPayload == ""

(***************************************************************************)
(* State.  appPc/startIdx/subs: where on_start stands and the broker       *)
(* registrations made so far; topicSubs: the MQTT subscriptions of the     *)
(* decorators; broker: the data broker's current values; tasks: every      *)
(* callback/handler instance dispatched so far; published: the publishes   *)
(* that succeeded, in order; shadow: the publishes of a second run that    *)
(* is given the empty payload in every request; logged: the debug lines;   *)
(* loopStopped: the SIGTERM handler, LOOP.stop, has run; scriptPc: where   *)
(* the module-level script stands (lines 232-235).                         *)
(***************************************************************************)
VARIABLES appPc, startIdx, subs, topicSubs, broker, nUpdates, tasks,
          published, shadow, logged, nNotif, nReq, pubAttempts,
          loopStopped, scriptPc

vars == << appPc, startIdx, subs, topicSubs, broker, nUpdates, tasks,
           published, shadow, logged, nNotif, nReq, pubAttempts,
           loopStopped, scriptPc >>

\* The loop is running main(): coroutines are resumed only then.
Alive ==
    /\ appPc \in { "starting", "running" }
    /\ ~loopStopped
    /\ scriptPc = "run_until_complete"

\* The run may take one more input.
MayTakeInput ==
    /\ Alive
    /\ nUpdates + nReq < MaxEvents
    /\ appPc = "starting" => nUpdates + nReq < MaxEarly

Init ==
    /\ appPc = "starting"
    /\ startIdx = 1
    /\ subs = << >>
    /\ topicSubs = subscribe_topic
    /\ broker = [p \in SignalPaths |-> PyNone]
    /\ nUpdates = 0
    /\ tasks = << >>
    /\ published = << >>
    /\ shadow = << >>
    /\ logged = {}
    /\ nNotif = 0
    /\ nReq = 0
    /\ pubAttempts = 0
    /\ loopStopped = FALSE
    /\ scriptPc = "run_until_complete"

(***************************************************************************)
(* on_start: one awaited subscribe after the other.  A subscribe that      *)
(* raises ends on_start with that exception: nothing catches it.           *)
(***************************************************************************)
SubscribeDone(idx) ==
    [pc |-> IF idx = Len(on_start) THEN "running" ELSE "starting", idx |-> idx + 1]

\* An on_start that catches the exception and goes on to the next subscribe.
SubscribeSwallowed(idx) == SubscribeDone(idx)

SubscribeRaised(idx) == [pc |-> "failed", idx |-> idx]

SubscribeOk ==
    /\ Alive
    /\ appPc = "starting"
    /\ subs' = Append(subs, on_start[startIdx])
    /\ appPc' = SubscribeDone(startIdx).pc
    /\ startIdx' = SubscribeDone(startIdx).idx
    /\ UNCHANGED << topicSubs, broker, nUpdates, tasks, published, shadow,
                    logged, nNotif, nReq, pubAttempts,
                    loopStopped, scriptPc >>

SubscribeFail ==
    /\ Alive
    /\ appPc = "starting"
    /\ appPc' = SubscribeRaised(startIdx).pc
    /\ startIdx' = SubscribeRaised(startIdx).idx
    /\ UNCHANGED << subs, topicSubs, broker, nUpdates, tasks, published, shadow,
                    logged, nNotif, nReq, pubAttempts,
                    loopStopped, scriptPc >>

(***************************************************************************)
(* Handler instances.  The event loop runs each delivered reply or message *)
(* as its own coroutine: it is suspended at each await and resumed when    *)
(* the awaited call completes or raises.                                   *)
(***************************************************************************)
Faulted(ts) == \E k \in 1..Len(ts) : ts[k].pc = "failed"

\* A delivered reply or message starts a new instance of its handler.
Dispatch(ts, t) == Append(ts, t)

\* A handler whose read is a blocking call: while one instance reads, the
\* loop runs nothing else.
ResumableBlocking(ts, i, pc) ==
    /\ ts[i].pc = pc
    /\ \A k \in (1..Len(ts)) \ {i} : ts[k].pc # "read"

\* An instance resumes when its own awaited call completes.
Resumable(ts, i, pc) == ts[i].pc = pc

\* An exception that ends every instance the loop is running.
AbortAll(ts, i, fault) ==
    [k \in 1..Len(ts) |->
        IF k = i \/ ts[k].pc \in { "read", "publish" }
        THEN [ts[k] EXCEPT !.pc = "failed", !.fault = fault]
        ELSE ts[k]]

\* An exception nothing catches ends the instance it is raised in.
Abort(ts, i, fault) == [ts EXCEPT ![i].pc = "failed", ![i].fault = fault]

\* A handler that catches the read's exception and answers with None.
ReadRaisedAnswered(ts, i) ==
    [ts EXCEPT ![i].pc = "publish", ![i].fault = "read",
               ![i].call = CallRequestHandler(ts[i].cb, ts[i].data, PyNone),
               ![i].call2 = CallRequestHandler(ts[i].cb, EmptyPayload, PyNone)]

\* The awaited <datapoint>.get() raised: the handler has no try/except.
ReadRaised(ts, i) == Abort(ts, i, "read")

\* A handler that catches the publish's exception and publishes again.
PublishRetried(ts, i) == [ts EXCEPT ![i].attempts = ts[i].attempts + 1]

\* The awaited publish_event raised: the handler has no try/except.
PublishRaised(ts, i) ==
    Abort([ts EXCEPT ![i].attempts = ts[i].attempts + 1], i, "publish")

\* A handler answering with the value the datapoint had when the request came.
ReadValueAtArrival(t, brk) == t.arrVal

\* The value the awaited <datapoint>.get() returns: the broker's value then.
ReadValue(t, brk) == brk[t.path]

\* A callback instance: it has taken the value out of its reply and built
\* the call it awaits, publish_event(topic, json.dumps(...)).
ChangeTask(cb, path, v) ==
    LET call == CallChangeCallback(cb, DataPointReply(path, v)) IN
    [ kind |-> "change", cb |-> cb, topic |-> "", path |-> path,
      reply |-> DataPointReply(path, v), data |-> "",
      call |-> call, call2 |-> call,
      pc |-> IF call.raised THEN "failed" ELSE "publish",
      fault |-> IF call.raised THEN "get" ELSE "none",
      attempts |-> 0, arrVal |-> v, readVal |-> v,
      overlap |-> FALSE, afterFault |-> Faulted(tasks),
      steps |-> << "receive" >> ]

\* A handler that returns at once, without an answer, when an equal request
\* (same topic, same payload) is still being handled.
QueryTaskDeduplicated(topic, h, data) ==
    LET dup == \E k \in 1..Len(tasks) :
                   /\ tasks[k].topic = topic /\ tasks[k].data = data
                   /\ tasks[k].pc \in { "read", "publish" }
    IN  [ kind |-> "query", cb |-> h, topic |-> topic, path |-> HandlerGet(h),
          reply |-> NoReply, data |-> data,
          call |-> Raised, call2 |-> Raised,
          pc |-> IF dup THEN "done" ELSE "read", fault |-> "none",
          attempts |-> 0, arrVal |-> broker[HandlerGet(h)], readVal |-> PyNone,
          overlap |-> dup, afterFault |-> Faulted(tasks),
          steps |-> << "receive" >> ]

\* A handler that answers from the value the datapoint had when the request
\* came, without awaiting a read.
QueryTaskUnread(topic, h, data) ==
    [ kind |-> "query", cb |-> h, topic |-> topic, path |-> HandlerGet(h),
      reply |-> NoReply, data |-> data,
      call |-> CallRequestHandler(h, data, broker[HandlerGet(h)]),
      call2 |-> CallRequestHandler(h, EmptyPayload, broker[HandlerGet(h)]),
      pc |-> "publish", fault |-> "none",
      attempts |-> 0, arrVal |-> broker[HandlerGet(h)],
      readVal |-> broker[HandlerGet(h)],
      overlap |-> FALSE, afterFault |-> Faulted(tasks),
      steps |-> << "receive" >> ]

\* A request handler instance: it has logged its debug line and awaits the
\* datapoint's get().
QueryTask(topic, h, data) ==
    [ kind |-> "query", cb |-> h, topic |-> topic, path |-> HandlerGet(h),
      reply |-> NoReply, data |-> data,
      call |-> Raised, call2 |-> Raised,
      pc |-> "read", fault |-> "none",
      attempts |-> 0, arrVal |-> broker[HandlerGet(h)], readVal |-> PyNone,
      overlap |-> \E k \in 1..Len(tasks) :
                      /\ tasks[k].topic = topic /\ tasks[k].data = data
                      /\ tasks[k].pc = "read",
      afterFault |-> Faulted(tasks),
      steps |-> << "receive" >> ]

(***************************************************************************)
(* The broker sets a datapoint.  When the datapoint has a registration,    *)
(* its callback is called with the reply: the callback takes the value out *)
(* of the reply and calls publish_event (lines 92-100, 103-107, ...).      *)
(***************************************************************************)
BrokerUpdate(path, v) ==
    /\ MayTakeInput
    /\ nUpdates' = nUpdates + 1
    /\ broker' = [broker EXCEPT ![path] = v]
    /\ LET regs == { k \in 1..Len(subs) : subs[k][1] = path } IN
       IF regs = {}
       THEN UNCHANGED << tasks, nNotif >>
       ELSE /\ LET k == CHOOSE r \in regs : TRUE IN
               tasks' = Dispatch(tasks, ChangeTask(subs[k][2], path, v))
            /\ nNotif' = nNotif + 1
    /\ UNCHANGED << appPc, startIdx, subs, topicSubs, published, shadow, logged,
                    nReq, pubAttempts,
                    loopStopped, scriptPc >>

(***************************************************************************)
(* A message arrives on a subscribed request topic: the handler logs its   *)
(* debug line and awaits the datapoint's get() (lines 140-147, 166-167,    *)
(* ...).                                                                   *)
(***************************************************************************)
Request(topic, data) ==
    /\ MayTakeInput
    /\ \E s \in topicSubs :
          /\ s[1] = topic
          /\ tasks' = Dispatch(tasks, QueryTask(topic, s[2], data))
          /\ logged' = logged \cup { HandlerLog(s[2], data) }
    /\ nReq' = nReq + 1
    /\ UNCHANGED << appPc, startIdx, subs, topicSubs, broker, nUpdates, published,
                    shadow, nNotif, pubAttempts,
                    loopStopped, scriptPc >>

\* get() returns: the handler builds the response and calls publish_event.
ReadOk(i) ==
    /\ Alive
    /\ Resumable(tasks, i, "read")
    /\ LET t == tasks[i]
           v == ReadValue(t, broker) IN
       tasks' = [tasks EXCEPT ![i].pc = "publish",
                              ![i].readVal = broker[t.path],
                              ![i].steps = Append(t.steps, "read"),
                              ![i].call = CallRequestHandler(t.cb, t.data, v),
                              ![i].call2 = CallRequestHandler(t.cb, EmptyPayload, v)]
    /\ UNCHANGED << appPc, startIdx, subs, topicSubs, broker, nUpdates, published,
                    shadow, logged, nNotif, nReq, pubAttempts,
                    loopStopped, scriptPc >>

\* get() raises.
ReadFail(i) ==
    /\ Alive
    /\ Resumable(tasks, i, "read")
    /\ tasks' = ReadRaised(tasks, i)
    /\ UNCHANGED << appPc, startIdx, subs, topicSubs, broker, nUpdates, published,
                    shadow, logged, nNotif, nReq, pubAttempts,
                    loopStopped, scriptPc >>

\* The bindings of the app's own decorators that a message on this topic
\* reaches: the MQTT broker hands a message to every subscriber of its topic,
\* the app that published it included.
SelfDelivery(topic) == { s \in topicSubs : s[1] = topic }

\* publish_event returns: the message is out and the handler returns.  A
\* message on a topic the app itself subscribes to comes back as a request.
PublishOk(i) ==
    /\ Alive
    /\ Resumable(tasks, i, "publish")
    /\ pubAttempts' = pubAttempts + 1
    /\ published' = Append(published, [topic |-> tasks[i].call.topic,
                                       payload |-> tasks[i].call.payload,
                                       by |-> i])
    /\ shadow' = Append(shadow, [topic |-> tasks[i].call2.topic,
                                 payload |-> tasks[i].call2.payload])
    /\ LET returned == [tasks EXCEPT ![i].pc = "done",
                                     ![i].attempts = tasks[i].attempts + 1,
                                     ![i].steps = Append(tasks[i].steps, "publish")]
           own == SelfDelivery(tasks[i].call.topic)
       IN  IF own = {}
           THEN /\ tasks' = returned
                /\ UNCHANGED logged
           ELSE LET s == CHOOSE x \in own : TRUE IN
                /\ tasks' = Dispatch(returned,
                                QueryTask(s[1], s[2], tasks[i].call.payload))
                /\ logged' = logged \cup { HandlerLog(s[2], tasks[i].call.payload) }
    /\ UNCHANGED << appPc, startIdx, subs, topicSubs, broker, nUpdates,
                    nNotif, nReq, loopStopped, scriptPc >>

\* publish_event raises.
PublishFail(i) ==
    /\ Alive
    /\ Resumable(tasks, i, "publish")
    /\ pubAttempts' = pubAttempts + 1
    /\ tasks' = PublishRaised(tasks, i)
    /\ UNCHANGED << appPc, startIdx, subs, topicSubs, broker, nUpdates, published,
                    shadow, logged, nNotif, nReq,
                    loopStopped, scriptPc >>

(***************************************************************************)
(* Shutdown (lines 232-235).  SIGTERM runs LOOP.stop: the loop leaves      *)
(* run_forever at the end of its iteration and resumes no coroutine any    *)
(* more.  run_until_complete(main()) then ends: it returns main()'s result *)
(* when main() has completed, re-raises main()'s exception when it has     *)
(* completed with one, and raises RuntimeError ("Event loop stopped before *)
(* Future completed.") when the loop was stopped with main() still         *)
(* running.  LOOP.close() is the statement after it: it runs only when     *)
(* run_until_complete returns.                                             *)
(***************************************************************************)
\* main() has completed: vehicle_app.run() ended, which it does only by the
\* exception of on_start.
MainDone(app) == app = "failed"
MainRaised(app) == app = "failed"

run_until_complete(app, stopped) ==
    IF MainDone(app)
    THEN IF MainRaised(app) THEN "raised" ELSE "returned"
    ELSE IF stopped THEN "raised" ELSE "pending"

\* Where the script stands after run_until_complete: LOOP.close() has run when
\* it returned, and the script has ended with the exception when it raised.
AfterRunUntilComplete(outcome) == IF outcome = "returned" THEN "closed" ELSE "raised"

\* LOOP.add_signal_handler(signal.SIGTERM, LOOP.stop): the signal arrives while
\* the loop runs main().  The loop stops, and with no coroutine resumed any
\* more the next thing to happen is the end of run_until_complete.
LoopStop ==
    /\ Alive
    /\ loopStopped' = TRUE
    /\ scriptPc' = AfterRunUntilComplete(run_until_complete(appPc, TRUE))
    /\ UNCHANGED << appPc, startIdx, subs, topicSubs, broker, nUpdates, tasks,
                    published, shadow, logged, nNotif, nReq, pubAttempts >>

\* main() has completed with the loop running: run_until_complete ends, and
\* LOOP.close() follows when it returned.
ScriptEnd ==
    /\ scriptPc = "run_until_complete"
    /\ run_until_complete(appPc, loopStopped) # "pending"
    /\ scriptPc' = AfterRunUntilComplete(run_until_complete(appPc, loopStopped))
    /\ UNCHANGED << appPc, startIdx, subs, topicSubs, broker, nUpdates, tasks,
                    published, shadow, logged, nNotif, nReq, pubAttempts,
                    loopStopped >>

Next ==
    \/ SubscribeOk
    \/ SubscribeFail
    \/ \E path \in SignalPaths : \E v \in ValuesOf(path) : BrokerUpdate(path, v)
    \/ \E s \in subscribe_topic, data \in Payloads : Request(s[1], data)
    \/ \E i \in 1..Len(tasks) : ReadOk(i)
    \/ \E i \in 1..Len(tasks) : ReadFail(i)
    \/ \E i \in 1..Len(tasks) : PublishOk(i)
    \/ \E i \in 1..Len(tasks) : PublishFail(i)
    \/ LoopStop
    \/ ScriptEnd

Spec == Init /\ [][Next]_vars

(***************************************************************************)
(* Properties.                                                             *)
(***************************************************************************)
Tasks == 1..Len(tasks)
ChangeTasks == { i \in Tasks : tasks[i].kind = "change" }
QueryTasks == { i \in Tasks : tasks[i].kind = "query" }

\* The publishes made by instance i.
PublishesBy(i) == { k \in 1..Len(published) : published[k].by = i }

\* The signal bindings as the specification states them.
SignalTopic(path) ==
    CASE path = "Vehicle.Speed" -> "sampleapp/currentSpeed"
      [] path = "Vehicle.Chassis.SteeringWheel.Angle" -> "sampleapp/currentSteer"
      [] path = "Vehicle.OBD.ThrottlePosition" -> "sampleapp/currentThrottle"
      [] path = "Vehicle.Chassis.Brake.PedalPosition" -> "sampleapp/currentBrake"
      [] path = "Vehicle.ADAS.LaneDepartureDetection.IsWarning" -> "sampleapp/currentLane"

SignalField(path) ==
    CASE path = "Vehicle.Speed" -> "speed"
      [] path = "Vehicle.Chassis.SteeringWheel.Angle" -> "steeringAngle"
      [] path = "Vehicle.OBD.ThrottlePosition" -> "throttlePosition"
      [] path = "Vehicle.Chassis.Brake.PedalPosition" -> "brakePosition"
      [] path = "Vehicle.ADAS.LaneDepartureDetection.IsWarning" -> "laneWarning"

\* C1: every broker notification carrying value v for a bound signal starts
\* one callback instance; an instance that has returned made exactly one
\* publish, to the signal's bound topic, with payload {"<field>": v} for the
\* v of the notification; an instance that has not returned made none.
C1_SignalRelay ==
    /\ Cardinality(ChangeTasks) = nNotif
    /\ \A i \in ChangeTasks :
          LET t == tasks[i]
              path == CHOOSE p \in DOMAIN t.reply : TRUE
          IN  /\ t.pc \in { "publish", "done", "failed" }
              /\ t.pc = "done" =>
                    /\ Cardinality(PublishesBy(i)) = 1
                    /\ \A k \in PublishesBy(i) :
                          /\ published[k].topic = SignalTopic(path)
                          /\ published[k].payload =
                                "{\"" \o SignalField(path) \o "\": "
                                    \o json_dumps(t.reply[path]) \o "}"
              /\ t.pc # "done" => PublishesBy(i) = {}
              /\ t.fault # "get"

\* C1 witness: the speed notification 42.5 was published as {"speed": 42.5}
\* on sampleapp/currentSpeed, and a steering notification on its own topic.
C1_Witness ==
    /\ \E k \in 1..Len(published) :
          /\ published[k].topic = "sampleapp/currentSpeed"
          /\ published[k].payload = "{\"speed\": 42.5}"
    /\ \E k \in 1..Len(published) :
          /\ published[k].topic = "sampleapp/currentSteer"
          /\ published[k].payload = "{\"steeringAngle\": -3}"

\* The query bindings: the label each handler's f-string puts before " = ".
ResponseLabel(topic) ==
    CASE topic = "sampleapp/getSpeed" -> "Current Speed"
      [] topic = "sampleapp/getSteer" -> "Steer Angle"
      [] topic = "sampleapp/getThrottle" -> "Throttle"
      [] topic = "sampleapp/getBrake" -> "Brake                Position"
      [] topic = "sampleapp/getLane" -> "Lane Warning"

\* The response text with json.dumps' default separators.
SpacedResponse(label, v) ==
    "{\"result\": {\"status\": 0, \"message\": \"" \o label \o " = "
        \o format_value(v) \o "\"}}"

\* The response text exactly as the claim writes it, without blanks.
CompactResponse(label, v) ==
    "{\"result\":{\"status\":0,\"message\":\"" \o label \o " = "
        \o format_value(v) \o "\"}}"

\* The shape shared by C2 as stated and C2 as amended: one handler instance
\* per request, and a returned instance made exactly one publish, to the
\* request topic's response topic, whose text is Text(label, value the
\* broker held when the read completed).
ResponseShape(Text(_, _)) ==
    /\ Cardinality(QueryTasks) = nReq
    /\ \A i \in QueryTasks :
          LET t == tasks[i] IN
          /\ t.pc = "done" =>
                /\ Cardinality(PublishesBy(i)) = 1
                /\ \A k \in PublishesBy(i) :
                      /\ published[k].topic = t.topic \o "/response"
                      /\ published[k].payload = Text(ResponseLabel(t.topic), t.readVal)
          /\ t.pc # "done" => PublishesBy(i) = {}

\* C2 (as amended): every request makes exactly one publish to the bound
\* response topic, with the text
\* {"result": {"status": 0, "message": "<Label> = <v>"}} (json.dumps' ", "
\* and ": " separators), v being the broker's value of the bound signal when
\* the handler's read completes.
C2_ResponseAtReadTime == ResponseShape(SpacedResponse)

\* C2 (as stated): the same with the text
\* {"result":{"status":0,"message":"<Label> = <v>"}}.
C2_CompactPayload == ResponseShape(CompactResponse)

\* C2 witness: a response was published for a request whose signal changed
\* between the request's arrival and the completion of its read.
C2_Witness ==
    \E i \in QueryTasks :
        /\ tasks[i].pc = "done"
        /\ tasks[i].arrVal # tasks[i].readVal
        /\ \E k \in PublishesBy(i) :
              published[k].payload = SpacedResponse(ResponseLabel(tasks[i].topic),
                                                    tasks[i].readVal)

\* The routing table as the specification states it.
QueryPath(topic) ==
    CASE topic = "sampleapp/getSpeed" -> "Vehicle.Speed"
      [] topic = "sampleapp/getSteer" -> "Vehicle.Chassis.SteeringWheel.Angle"
      [] topic = "sampleapp/getThrottle" -> "Vehicle.OBD.ThrottlePosition"
      [] topic = "sampleapp/getBrake" -> "Vehicle.Chassis.Brake.PedalPosition"
      [] topic = "sampleapp/getLane" -> "Vehicle.ADAS.LaneDepartureDetection.IsWarning"

\* The labels: the words of each handler's message literal.
QueryLabel(topic) ==
    CASE topic = "sampleapp/getSpeed" -> "Current Speed"
      [] topic = "sampleapp/getSteer" -> "Steer Angle"
      [] topic = "sampleapp/getThrottle" -> "Throttle"
      [] topic = "sampleapp/getBrake" -> "Brake Position"
      [] topic = "sampleapp/getLane" -> "Lane Warning"

RoutingShape(Label(_)) ==
    \A i \in QueryTasks :
        LET t == tasks[i] IN
        /\ t.path = QueryPath(t.topic)
        /\ \A k \in PublishesBy(i) :
              /\ published[k].topic = t.topic \o "/response"
              /\ published[k].payload = SpacedResponse(Label(t.topic), t.readVal)

\* C3: a request on sampleapp/get<Signal> reads the signal path bound to the
\* topic, publishes to the request topic followed by "/response", and its
\* message is the binding's label immediately followed by " = " and the
\* value, with no other characters inserted.
C3_QueryRouting == RoutingShape(QueryLabel)

\* The same routing with the labels exactly as the handlers emit them: the
\* brake label carries the continuation line's sixteen blanks.
C3_RoutingWithSourceLabels == RoutingShape(ResponseLabel)

\* The five signal paths of on_start, in the order of the specification.
ExpectedPaths ==
    << "Vehicle.Speed", "Vehicle.Chassis.SteeringWheel.Angle",
       "Vehicle.OBD.ThrottlePosition", "Vehicle.Chassis.Brake.PedalPosition",
       "Vehicle.ADAS.LaneDepartureDetection.IsWarning" >>

\* C4: on_start returns normally only with a change-callback registered for
\* all five signal paths; when a registration fails on_start has failed, the
\* registrations made before are still there and none after it was attempted.
C4_StartAllOrFail ==
    /\ appPc \in { "starting", "running", "failed" }
    /\ Len(subs) <= Len(ExpectedPaths)
    /\ \A k \in 1..Len(subs) :
          subs[k][1] = ExpectedPaths[k] /\ subs[k][2] \in ChangeCallbacks
    /\ appPc = "running" => Len(subs) = Len(ExpectedPaths)
    /\ appPc = "starting" => startIdx = Len(subs) + 1
    /\ appPc = "failed" =>
          /\ Len(subs) < Len(ExpectedPaths)
          /\ startIdx = Len(subs) + 1

\* C4 witness: on_start failed at its third subscribe, two registrations made.
C4_Witness == appPc = "failed" /\ Len(subs) = 2 /\ startIdx = 3

\* Every text a status-0 response can have.
StatusZeroResponses ==
    { SpacedResponse(ResponseLabel(s[1]), v) :
        s \in subscribe_topic, v \in UNION { ValuesOf(p) : p \in SignalPaths } }

ResponseTopics == { s[1] \o "/response" : s \in subscribe_topic }

\* C5: every publish on a response topic carries status 0, and a request
\* whose read failed has no response at all: the failure ended its handler.
C5_StatusZeroOrNothing ==
    /\ \A k \in 1..Len(published) :
          published[k].topic \in ResponseTopics =>
              published[k].payload \in StatusZeroResponses
    /\ \A i \in QueryTasks :
          tasks[i].fault = "read" =>
              /\ tasks[i].pc = "failed"
              /\ PublishesBy(i) = {}
              /\ tasks[i].attempts = 0

\* C5 witness: one request's read failed and it has no response, another
\* request on the same topic was answered with status 0.
C5_Witness ==
    \E i, j \in QueryTasks :
        /\ tasks[i].fault = "read" /\ PublishesBy(i) = {}
        /\ tasks[j].topic = tasks[i].topic
        /\ \E k \in PublishesBy(j) : published[k].payload \in StatusZeroResponses

RECURSIVE SumAttempts(_)
SumAttempts(n) == IF n = 0 THEN 0 ELSE tasks[n].attempts + SumAttempts(n - 1)

\* C6: an instance attempts its publish at most once; a failed publish is
\* not retried and ends the instance with the failure; publish attempts
\* never exceed the notifications plus requests received.
C6_NoPublishRetry ==
    /\ \A i \in Tasks :
          /\ tasks[i].attempts <= 1
          /\ tasks[i].fault = "publish" =>
                /\ tasks[i].pc = "failed"
                /\ tasks[i].attempts = 1
                /\ PublishesBy(i) = {}
    /\ pubAttempts = SumAttempts(Len(tasks))
    /\ pubAttempts <= nNotif + nReq

\* C6 witness: a change callback and a request handler each had its publish
\* fail, after one attempt each.
C6_Witness ==
    /\ \E i \in ChangeTasks : tasks[i].fault = "publish"
    /\ \E i \in QueryTasks : tasks[i].fault = "publish"
    /\ pubAttempts = nNotif + nReq

\* The (topic, payload) messages published, in order.
Messages(log) ==
    [k \in 1..Len(log) |-> [topic |-> log[k].topic, payload |-> log[k].payload]]

\* C7: the same request (same topic, same payload) delivered twice is handled
\* twice: each request has its own handler instance, also when it arrives
\* while an equal one is suspended on its read; two returned instances made
\* two separate publishes, with identical payloads when the broker held the
\* same value at both reads.
C7_NoDedup ==
    /\ Cardinality(QueryTasks) = nReq
    /\ \A i, j \in QueryTasks :
          ( /\ i < j
            /\ tasks[i].topic = tasks[j].topic /\ tasks[i].data = tasks[j].data
            /\ tasks[i].pc = "done" /\ tasks[j].pc = "done" ) =>
              /\ Cardinality(PublishesBy(i) \cup PublishesBy(j)) = 2
              /\ PublishesBy(i) \cap PublishesBy(j) = {}
              /\ tasks[i].readVal = tasks[j].readVal =>
                    \A k \in PublishesBy(i), l \in PublishesBy(j) :
                        Messages(published)[k] = Messages(published)[l]

\* C7 witness: the second of two equal requests arrived while the first was
\* suspended on its read; both were answered, with identical payloads.
C7_Witness ==
    \E i, j \in QueryTasks :
        /\ i < j /\ tasks[j].overlap
        /\ tasks[i].topic = tasks[j].topic /\ tasks[i].data = tasks[j].data
        /\ tasks[i].pc = "done" /\ tasks[j].pc = "done"
        /\ \E k \in PublishesBy(i), l \in PublishesBy(j) :
              k # l /\ published[k].payload = published[l].payload

\* C8: the publishes of the run equal, message for message, the publishes of
\* the run that gets the empty payload in every request and the same broker
\* values: no request payload reaches a published message.
C8_PayloadIgnored == Messages(published) = shadow

\* C8 witness: requests with the malformed payload were answered, one of them
\* a throttle request, and the payload is in the debug log only.
C8_Witness ==
    /\ \E i \in QueryTasks :
          /\ tasks[i].data = "{oops" /\ tasks[i].topic = "sampleapp/getThrottle"
          /\ tasks[i].pc = "done"
    /\ "Received throttle request: {oops" \in logged
    /\ Len(shadow) = 2

Fails(i) == tasks[i].pc # "failed" /\ tasks'[i].pc = "failed"

C11_ShutdownClosesLoop ==
    (appPc = "running" /\ loopStopped /\ scriptPc # "run_until_complete")
        => scriptPc = "closed"

\* The part of C11 the code does keep: a delivered SIGTERM stops the loop for
\* good, and from then on nothing is published and no handler takes a step.
C11_NoPublishAfterStop ==
    [][loopStopped =>
          /\ loopStopped'
          /\ published' = published
          /\ pubAttempts' = pubAttempts
          /\ tasks' = tasks]_vars

(***************************************************************************)
(* C12.  A notification whose value for the bound signal is null does not  *)
(* make the change callback fail: the instance reaches its publish_event   *)
(* call, the call is for the bound topic with the payload                  *)
(* {"<field>": null}, and once the instance has returned exactly that one  *)
(* message is out.                                                         *)
(***************************************************************************)
NullPayload(path) ==
    CASE path = "Vehicle.Speed" -> "{\"speed\": null}"
      [] path = "Vehicle.Chassis.SteeringWheel.Angle" -> "{\"steeringAngle\": null}"
      [] path = "Vehicle.OBD.ThrottlePosition" -> "{\"throttlePosition\": null}"
      [] path = "Vehicle.Chassis.Brake.PedalPosition" -> "{\"brakePosition\": null}"
      [] path = "Vehicle.ADAS.LaneDepartureDetection.IsWarning" ->
             "{\"laneWarning\": null}"

NullNotifications ==
    { i \in ChangeTasks : tasks[i].reply[tasks[i].path] = PyNone }

C12_NullNotification ==
    \A i \in NullNotifications :
        LET t == tasks[i] IN
        /\ t.fault # "get"
        /\ ~t.call.raised
        /\ t.call.topic = SignalTopic(t.path)
        /\ t.call.payload = NullPayload(t.path)
        /\ t.pc = "done" =>
              /\ Cardinality(PublishesBy(i)) = 1
              /\ \A k \in PublishesBy(i) :
                    /\ published[k].topic = SignalTopic(t.path)
                    /\ published[k].payload = NullPayload(t.path)

\* C12 witness: a null brake notification went out as {"brakePosition": null}
\* on sampleapp/currentBrake, and its callback instance has returned.
C12_Witness ==
    \E i \in NullNotifications :
        /\ tasks[i].path = "Vehicle.Chassis.Brake.PedalPosition"
        /\ tasks[i].pc = "done"
        /\ \E k \in PublishesBy(i) :
              /\ published[k].topic = "sampleapp/currentBrake"
              /\ published[k].payload = "{\"brakePosition\": null}"

(***************************************************************************)
(* C13.  The binding tables are static after startup: in every state in    *)
(* which on_start has completed, whatever notifications, requests, read    *)
(* failures and publish failures came before, the signal registrations are *)
(* the same five, each path once, with its own callback, in the order      *)
(* Speed, SteeringWheel.Angle, ThrottlePosition, Brake.PedalPosition,      *)
(* LaneDepartureDetection.IsWarning; and the topic bindings are the same   *)
(* five in every state.                                                    *)
(***************************************************************************)
ExpectedRegistrations ==
    << << "Vehicle.Speed", "on_speed_change" >>,
       << "Vehicle.Chassis.SteeringWheel.Angle", "on_steer_change" >>,
       << "Vehicle.OBD.ThrottlePosition", "on_throttle_change" >>,
       << "Vehicle.Chassis.Brake.PedalPosition", "on_brake_change" >>,
       << "Vehicle.ADAS.LaneDepartureDetection.IsWarning", "on_lane_change" >> >>

ExpectedTopicBindings ==
    { << "sampleapp/getSpeed", "on_get_speed_request_received" >>,
      << "sampleapp/getSteer", "on_get_steer_request_received" >>,
      << "sampleapp/getThrottle", "on_get_throttle_request_received" >>,
      << "sampleapp/getBrake", "on_get_brake_request_received" >>,
      << "sampleapp/getLane", "on_get_lane_request_received" >> }

C13_StaticBindings ==
    /\ topicSubs = ExpectedTopicBindings
    /\ appPc = "running" => subs = ExpectedRegistrations
    /\ \A j, k \in 1..Len(subs) : subs[j][1] = subs[k][1] => j = k

\* C13 witness: on_start has completed, a request's read has failed and a
\* notification's publish has failed, and both tables are as at startup.
C13_Witness ==
    /\ appPc = "running"
    /\ subs = ExpectedRegistrations
    /\ topicSubs = ExpectedTopicBindings
    /\ \E i \in QueryTasks : tasks[i].fault = "read"
    /\ \E i \in ChangeTasks : tasks[i].fault = "publish"

(***************************************************************************)
(* C14.  The relay cannot trigger itself: the topics it publishes to, the  *)
(* five "current" topics and the five "response" topics, are disjoint from *)
(* the topics it subscribes to, the five "get" request topics; all fifteen *)
(* names are pairwise distinct, no message it has published                *)
(* is on a topic it subscribes to, every handler instance was started by   *)
(* an input from outside, and the number of completed publishes is at most *)
(* the number of notifications plus requests delivered from outside.       *)
(***************************************************************************)
CurrentTopics ==
    { DATABROKER_SPEED_SUBSCRIPTION_TOPIC, DATABROKER_STEER_SUBSCRIPTION_TOPIC,
      DATABROKER_TRHOT_SUBSCRIPTION_TOPIC, DATABROKER_BRAKE_SUBSCRIPTION_TOPIC,
      DATABROKER_LANE_SUBSCRIPTION_TOPIC }

ResponseTopicNames ==
    { GET_SPEED_RESPONSE_TOPIC, GET_STEER_RESPONSE_TOPIC, GET_THROT_RESPONSE_TOPIC,
      GET_BRAKE_RESPONSE_TOPIC, GET_LANE_RESPONSE_TOPIC }

SubscribedTopics == { s[1] : s \in topicSubs }

C14_NoSelfTrigger ==
    /\ (CurrentTopics \cup ResponseTopicNames) \cap SubscribedTopics = {}
    /\ Cardinality(CurrentTopics) = 5
    /\ Cardinality(ResponseTopicNames) = 5
    /\ Cardinality(SubscribedTopics) = 5
    /\ Cardinality(CurrentTopics \cup ResponseTopicNames \cup SubscribedTopics) = 15
    /\ \A k \in 1..Len(published) :
          /\ published[k].topic \in CurrentTopics \cup ResponseTopicNames
          /\ published[k].topic \notin SubscribedTopics
    /\ Len(tasks) = nNotif + nReq
    /\ Len(published) <= nNotif + nReq

\* C14 witness: a notification and a request from outside have both been
\* answered, one message each, and no further handler instance was started.
C14_Witness ==
    /\ nNotif = 1 /\ nReq = 1
    /\ Len(published) = 2
    /\ \E k \in 1..Len(published) : published[k].topic \in CurrentTopics
    /\ \E k \in 1..Len(published) : published[k].topic \in ResponseTopicNames
    /\ Len(tasks) = 2

(***************************************************************************)
(* C15.  Within one query handler instance the steps are strictly ordered  *)
(* receive -> broker read -> publish: the steps an instance has completed  *)
(* are a prefix of that sequence, a response is out only for an instance   *)
(* whose read has completed, every response is the publish of an instance  *)
(* started by a request on the bound request topic, and on every response  *)
(* topic the number of responses published is at most the number of        *)
(* requests received on its request topic.                                 *)
(***************************************************************************)
HandlerSteps == << "receive", "read", "publish" >>

ResponseTopicOf(topic) ==
    CASE topic = "sampleapp/getSpeed" -> "sampleapp/getSpeed/response"
      [] topic = "sampleapp/getSteer" -> "sampleapp/getSteer/response"
      [] topic = "sampleapp/getThrottle" -> "sampleapp/getThrottle/response"
      [] topic = "sampleapp/getBrake" -> "sampleapp/getBrake/response"
      [] topic = "sampleapp/getLane" -> "sampleapp/getLane/response"

RequestsOn(topic) == { i \in QueryTasks : tasks[i].topic = topic }

ResponsesOn(topic) ==
    { k \in 1..Len(published) : published[k].topic = ResponseTopicOf(topic) }

C15_ReceiveReadPublish ==
    /\ \A i \in QueryTasks :
          LET t == tasks[i] IN
          /\ Len(t.steps) \in 1..3
          /\ t.steps = SubSeq(HandlerSteps, 1, Len(t.steps))
          /\ t.pc = "read" => t.steps = << "receive" >>
          /\ t.pc = "publish" => t.steps = << "receive", "read" >>
          /\ PublishesBy(i) # {} => t.steps = HandlerSteps
    /\ \A topic \in SubscribedTopics :
          /\ \A k \in ResponsesOn(topic) :
                /\ published[k].by \in RequestsOn(topic)
                /\ tasks[published[k].by].steps = HandlerSteps
          /\ Cardinality(ResponsesOn(topic)) <= Cardinality(RequestsOn(topic))

\* C15 witness: two requests on sampleapp/getSteer, one answered after its
\* read, the other still waiting for its read: one response for two requests.
C15_Witness ==
    /\ Cardinality(RequestsOn("sampleapp/getSteer")) = 2
    /\ Cardinality(ResponsesOn("sampleapp/getSteer")) = 1
    /\ \E i \in RequestsOn("sampleapp/getSteer") :
          tasks[i].steps = << "receive", "read", "publish" >> /\ tasks[i].pc = "done"
    /\ \E i \in RequestsOn("sampleapp/getSteer") :
          tasks[i].steps = << "receive" >> /\ tasks[i].pc = "read"

(***************************************************************************)
(* C16.  A query answered while the broker's value of the bound signal is  *)
(* null still succeeds as a normal response: the handler's read of the     *)
(* null raises nothing, its one publish goes to the response topic with    *)
(* status 0, and the message is the handler's label followed by " = " and  *)
(* the text None, Python's rendering of the null, not JSON's null.  The    *)
(* labels are the handlers' own, as the source spells them.                *)
(***************************************************************************)
NullResponse(topic) ==
    CASE topic = "sampleapp/getSpeed" ->
             "{\"result\": {\"status\": 0, \"message\": \"Current Speed = None\"}}"
      [] topic = "sampleapp/getSteer" ->
             "{\"result\": {\"status\": 0, \"message\": \"Steer Angle = None\"}}"
      [] topic = "sampleapp/getThrottle" ->
             "{\"result\": {\"status\": 0, \"message\": \"Throttle = None\"}}"
      [] topic = "sampleapp/getBrake" ->
             "{\"result\": {\"status\": 0, \"message\": \"Brake                Position = None\"}}"
      [] topic = "sampleapp/getLane" ->
             "{\"result\": {\"status\": 0, \"message\": \"Lane Warning = None\"}}"

\* The handler instances whose read has completed and returned the null.
NullReads ==
    { i \in QueryTasks :
          /\ Len(tasks[i].steps) >= 2
          /\ tasks[i].readVal = PyNone }

C16_NullQuery ==
    \A i \in NullReads :
        LET t == tasks[i] IN
        /\ t.fault # "read"
        /\ ~t.call.raised
        /\ t.call.topic = ResponseTopicOf(t.topic)
        /\ t.call.payload = NullResponse(t.topic)
        /\ t.pc = "done" =>
              /\ Cardinality(PublishesBy(i)) = 1
              /\ \A k \in PublishesBy(i) :
                    /\ published[k].topic = ResponseTopicOf(t.topic)
                    /\ published[k].payload = NullResponse(t.topic)

\* C16 witness: a lane request was answered while the lane warning was null:
\* its response says "Lane Warning = None" with status 0.
C16_Witness ==
    \E i \in NullReads :
        /\ tasks[i].topic = "sampleapp/getLane"
        /\ tasks[i].pc = "done"
        /\ \E k \in PublishesBy(i) :
              /\ published[k].topic = "sampleapp/getLane/response"
              /\ published[k].payload =
                    "{\"result\": {\"status\": 0, \"message\": \"Lane Warning = None\"}}"
====
